---- MODULE Spec2Model ----
(***************************************************************************)
(* Rate limiting, progressive login delay and the password-reset token     *)
(* lifecycle of the nextjs-auth-starter authentication backend.            *)
(*                                                                         *)
(* Six specifications share the state:                                     *)
(*   SpecLib  - the rate-limit library called directly (as its unit tests  *)
(*              do), with any of its configurations, the clock advancing   *)
(*              between any two calls;                                     *)
(*   Spec     - the four route handlers (register, login, forgot-password, *)
(*              reset-password), each advancing from one await to the      *)
(*              next, one request at a time, the clock advancing between   *)
(*              requests;                                                  *)
(*   SpecConc - the same handlers with two requests in flight, their       *)
(*              awaits interleaved, the clock advancing only past the      *)
(*              expiry of the tokens issued, and nothing throwing but a    *)
(*              write to a row that is no longer there;                    *)
(*   SpecTokens  - forgot-password and reset-password requests for a user  *)
(*              registered before the process started, more than one       *)
(*              token being issued;                                        *)
(*   SpecGates   - login and forgot-password requests of such a user, the  *)
(*              pauses between them chosen to end around the expiry of a   *)
(*              rate-limit window and of a failed-login entry;             *)
(*   SpecClients - the library called directly by one client after a       *)
(*              client with another identity has been served.              *)
(* Time is the millisecond wall clock read by Date.now(). An awaited call  *)
(* to the database, to bcrypt or to the mail transport may throw; thrown   *)
(* counts the requests that ended in a handler's catch block.              *)
(***************************************************************************)
EXTENDS Integers, Sequences, FiniteSets, TLC

VARIABLES now, ticks, client, rateLimitStore, failedLoginStore,
          users, tokens, mailbox, req, hist, scenario, thrown

vars == <<now, ticks, client, rateLimitStore, failedLoginStore,
          users, tokens, mailbox, req, hist, scenario, thrown>>

libVars == <<rateLimitStore, failedLoginStore>>
dbVars == <<users, tokens, mailbox>>

----------------------------------------------------------------------------
(* Bounds of the exploration *)

\* number of clock advances in one behaviour
MaxTicks == 1
\* cap on RateLimitEntry.count and failedAttempts for direct library calls
MaxCount == 6
\* cap on the failed-login attempts counter for direct library calls
MaxAttempts == 7

\* clock advances (ms): one millisecond, the first login delay, and just past
\* the login window, the one-hour window (and stale-streak threshold), and
\* the 24 h token expiry (and sweep threshold)
TickSet == {1, 1000, 900001, 3600001, 86400001}
\* times between two requests (ms): the first login delay, just past the
\* one-hour window, just past the 24 h token expiry
RequestGaps == {1000, 3600001, 86400001}

----------------------------------------------------------------------------
(* Program constants *)

\* env.security.resetTokenExpiry, in seconds
resetTokenExpiry == 86400

\* A user row is (id, email, password); its name, image, emailVerified and
\* timestamp columns are written and never read by the four handlers.

\* absent optional values
NoEntry == [absent |-> TRUE]
NoTime == -1

\* client identities: values of the forwarded-address headers
Headers == {[xff |-> "10.0.0.1", xri |-> ""],
            [xff |-> "", xri |-> "10.0.0.1"],
            [xff |-> "", xri |-> ""]}

defaultKeyGenerator(h) ==
    IF h.xff # "" THEN h.xff
    ELSE IF h.xri # "" THEN h.xri
    ELSE "unknown"

Keys == {defaultKeyGenerator(h) : h \in Headers}

\* RateLimitConfig; an omitted skip flag is undefined, hence falsy
rateLimitConfigs ==
    [auth |-> [windowMs |-> 3600000, maxAttempts |-> 5,
               skipSuccessfulRequests |-> TRUE, skipFailedRequests |-> FALSE],
     login |-> [windowMs |-> 900000, maxAttempts |-> 5,
                skipSuccessfulRequests |-> TRUE, skipFailedRequests |-> FALSE],
     passwordReset |-> [windowMs |-> 3600000, maxAttempts |-> 3,
                skipSuccessfulRequests |-> TRUE, skipFailedRequests |-> FALSE]]

ConfigNames == {"auth", "login", "passwordReset"}

----------------------------------------------------------------------------
(* The rate-limit library as functions of the stores and the clock *)

Max(a, b) == IF a >= b THEN a ELSE b

RECURSIVE Pow2(_)
Pow2(n) == IF n <= 0 THEN 1 ELSE 2 * Pow2(n - 1)

\* Math.ceil(x / 1000) for an integer x of either sign
CeilDiv1000(x) == -((-x) \div 1000)

\* cleanupExpiredEntries, rate-limit half
CleanRateLimit(rl, t) ==
    [k \in Keys |-> IF rl[k] # NoEntry /\ t > rl[k].resetAt THEN NoEntry ELSE rl[k]]

\* failed-login entries are swept once they are a second old
CleanFailedLogin_Eager(fl, t) ==
    [k \in Keys |-> IF fl[k] # NoEntry /\ t - fl[k].lastAttempt >= 1000
                    THEN NoEntry ELSE fl[k]]

\* cleanupExpiredEntries, failed-login half
CleanFailedLogin(fl, t) ==
    [k \in Keys |-> IF fl[k] # NoEntry /\ t - fl[k].lastAttempt > 24 * 60 * 60 * 1000
                    THEN NoEntry ELSE fl[k]]

\* every check counts as a request
CheckEntry_Counting(rl, key, cfg, t) ==
    LET e == CleanRateLimit(rl, t)[key]
    IN IF e = NoEntry \/ t > e.resetAt
       THEN [count |-> 0, resetAt |-> t + cfg.windowMs,
             failedAttempts |-> 0, lastFailedAt |-> NoTime]
       ELSE [e EXCEPT !.count = e.count + 1]

\* an expired entry is kept
CheckEntry_Stale(rl, key, cfg, t) ==
    IF rl[key] = NoEntry
    THEN [count |-> 0, resetAt |-> t + cfg.windowMs,
          failedAttempts |-> 0, lastFailedAt |-> NoTime]
    ELSE rl[key]

\* the entry checkRateLimit works on after cleanup and lazy (re)creation
CheckEntry(rl, key, cfg, t) ==
    LET e == CleanRateLimit(rl, t)[key]
    IN IF e = NoEntry \/ t > e.resetAt
       THEN [count |-> 0, resetAt |-> t + cfg.windowMs,
             failedAttempts |-> 0, lastFailedAt |-> NoTime]
       ELSE e

\* the rate-limit store after checkRateLimit
CheckStore(rl, key, cfg, t) ==
    [CleanRateLimit(rl, t) EXCEPT ![key] = CheckEntry(rl, key, cfg, t)]

\* checkRateLimit in a process that never runs cleanupExpiredEntries: the
\* entry it works on, the store it leaves and the value it returns
UnsweptCheckEntry(rl, key, cfg, t) ==
    IF rl[key] = NoEntry \/ t > rl[key].resetAt
    THEN [count |-> 0, resetAt |-> t + cfg.windowMs,
          failedAttempts |-> 0, lastFailedAt |-> NoTime]
    ELSE rl[key]

UnsweptCheckStore(rl, key, cfg, t) ==
    [rl EXCEPT ![key] = UnsweptCheckEntry(rl, key, cfg, t)]

UnsweptCheckResult(rl, key, cfg, t) ==
    LET e == UnsweptCheckEntry(rl, key, cfg, t)
    IN [isLimited |-> e.count >= cfg.maxAttempts,
        remaining |-> Max(0, cfg.maxAttempts - e.count),
        resetAt |-> e.resetAt]

\* the limit is reached one request too late
CheckResult_Gt(rl, key, cfg, t) ==
    LET e == CheckEntry(rl, key, cfg, t)
    IN [isLimited |-> e.count > cfg.maxAttempts,
        remaining |-> Max(0, cfg.maxAttempts - e.count),
        resetAt |-> e.resetAt]

\* the value checkRateLimit returns
CheckResult(rl, key, cfg, t) ==
    LET e == CheckEntry(rl, key, cfg, t)
    IN [isLimited |-> e.count >= cfg.maxAttempts,
        remaining |-> Max(0, cfg.maxAttempts - e.count),
        resetAt |-> e.resetAt]

\* the skip flags are ignored
shouldCount_Always(cfg, success) == TRUE

shouldCount(cfg, success) ==
    IF success THEN ~cfg.skipSuccessfulRequests ELSE ~cfg.skipFailedRequests

\* an update for an unknown identity opens an entry
UpdateStore_Create(rl, key, cfg, success, t) ==
    LET e == IF rl[key] = NoEntry
             THEN [count |-> 0, resetAt |-> t + cfg.windowMs,
                   failedAttempts |-> 0, lastFailedAt |-> NoTime]
             ELSE rl[key]
        c == IF shouldCount(cfg, success) THEN e.count + 1 ELSE e.count
    IN [rl EXCEPT ![key] =
           IF success THEN [e EXCEPT !.count = c]
           ELSE [e EXCEPT !.count = c,
                          !.failedAttempts = e.failedAttempts + 1,
                          !.lastFailedAt = t]]

\* the rate-limit store after updateRateLimit
UpdateStore(rl, key, cfg, success, t) ==
    IF rl[key] = NoEntry THEN rl
    ELSE LET e == rl[key]
             c == IF shouldCount(cfg, success) THEN e.count + 1 ELSE e.count
         IN [rl EXCEPT ![key] =
                IF success THEN [e EXCEPT !.count = c]
                ELSE [e EXCEPT !.count = c,
                               !.failedAttempts = e.failedAttempts + 1,
                               !.lastFailedAt = t]]

\* the doubling is never capped
calculateProgressiveDelay_NoCap(attempts) ==
    IF attempts <= 0 THEN 0 ELSE Pow2(attempts - 1) * 1000

\* the delays start at two seconds
calculateProgressiveDelay_Double(attempts) ==
    IF attempts <= 0 THEN 0
    ELSE IF attempts <= 5 THEN Pow2(attempts) * 1000
    ELSE 30 * 1000

calculateProgressiveDelay(attempts) ==
    IF attempts <= 0 THEN 0
    ELSE IF attempts <= 5 THEN Pow2(attempts - 1) * 1000
    ELSE 30 * 1000

\* the delay still holds at nextAllowedAt itself
DelayResult_Late(fl, key, t) ==
    LET e == CleanFailedLogin(fl, t)[key]
    IN IF e = NoEntry THEN [isDelayed |-> FALSE, delayMs |-> 0, nextAllowedAt |-> t]
       ELSE IF t <= e.nextAllowedAt
            THEN [isDelayed |-> TRUE, delayMs |-> e.nextAllowedAt - t,
                  nextAllowedAt |-> e.nextAllowedAt]
            ELSE [isDelayed |-> FALSE, delayMs |-> 0, nextAllowedAt |-> t]

\* the value checkLoginDelay returns (fl is the store after cleanup)
DelayResult(fl, key, t) ==
    LET e == CleanFailedLogin(fl, t)[key]
    IN IF e = NoEntry THEN [isDelayed |-> FALSE, delayMs |-> 0, nextAllowedAt |-> t]
       ELSE IF t < e.nextAllowedAt
            THEN [isDelayed |-> TRUE, delayMs |-> e.nextAllowedAt - t,
                  nextAllowedAt |-> e.nextAllowedAt]
            ELSE [isDelayed |-> FALSE, delayMs |-> 0, nextAllowedAt |-> t]

\* checkLoginDelay in a process that never runs cleanupExpiredEntries
UnsweptDelayResult(fl, key, t) ==
    IF fl[key] = NoEntry THEN [isDelayed |-> FALSE, delayMs |-> 0, nextAllowedAt |-> t]
    ELSE IF t < fl[key].nextAllowedAt
         THEN [isDelayed |-> TRUE, delayMs |-> fl[key].nextAllowedAt - t,
               nextAllowedAt |-> fl[key].nextAllowedAt]
         ELSE [isDelayed |-> FALSE, delayMs |-> 0, nextAllowedAt |-> t]

\* an old streak is never forgotten
RecordStore_Unforgiving(fl, key, t) ==
    LET e0 == IF fl[key] = NoEntry
              THEN [attempts |-> 0, lastAttempt |-> t, nextAllowedAt |-> t]
              ELSE fl[key]
        a1 == e0.attempts + 1
    IN [fl EXCEPT ![key] = [attempts |-> a1, lastAttempt |-> t,
                            nextAllowedAt |-> t + calculateProgressiveDelay(a1)]]

\* lastAttempt stays at the first failure of the streak
RecordStore_FirstStamp(fl, key, t) ==
    LET e0 == IF fl[key] = NoEntry
              THEN [attempts |-> 0, lastAttempt |-> t, nextAllowedAt |-> t]
              ELSE fl[key]
        a0 == IF t - e0.lastAttempt > 60 * 60 * 1000 THEN 0 ELSE e0.attempts
        a1 == a0 + 1
    IN [fl EXCEPT ![key] = [attempts |-> a1, lastAttempt |-> e0.lastAttempt,
                            nextAllowedAt |-> t + calculateProgressiveDelay(a1)]]

\* the failed-login store after recordFailedLogin
RecordStore(fl, key, t) ==
    LET e0 == IF fl[key] = NoEntry
              THEN [attempts |-> 0, lastAttempt |-> t, nextAllowedAt |-> t]
              ELSE fl[key]
        a0 == IF t - e0.lastAttempt > 60 * 60 * 1000 THEN 0 ELSE e0.attempts
        a1 == a0 + 1
    IN [fl EXCEPT ![key] = [attempts |-> a1, lastAttempt |-> t,
                            nextAllowedAt |-> t + calculateProgressiveDelay(a1)]]

\* the entry survives the clear
ClearStore_Keep(fl, key) == fl

\* the clear empties the whole store
ClearStore_All(fl, key) == [k \in Keys |-> NoEntry]

\* the failed-login store after clearFailedLogins
ClearStore(fl, key) == [fl EXCEPT ![key] = NoEntry]

\* the middleware lets every request through
RateLimitMiddleware_Open(rl, key, cfg, t) == NoEntry

\* the response createRateLimitMiddleware's filter builds, or NoEntry for null
RateLimitMiddleware(rl, key, cfg, t) ==
    LET r == CheckResult(rl, key, cfg, t)
    IN IF r.isLimited
       THEN [status |-> 429, message |-> "Too many requests. Please try again later.",
             code |-> "RATE_LIMIT_EXCEEDED",
             retryAfter |-> CeilDiv1000(r.resetAt - t)]
       ELSE NoEntry

\* the response createLoginDelayMiddleware's filter builds, or NoEntry for null
LoginDelayMiddleware(fl, key, t) ==
    LET r == DelayResult(fl, key, t)
    IN IF r.isDelayed
       THEN [status |-> 429,
             message |-> "Too many failed login attempts. Please try again later.",
             code |-> "LOGIN_DELAY",
             retryAfter |-> CeilDiv1000(r.delayMs)]
       ELSE NoEntry

----------------------------------------------------------------------------
(* Initial state: a fresh process and an empty database.  All calls of one  *)
(* behaviour carry the same forwarded-address headers, client.              *)

\* number of reset tokens generateToken hands out in one behaviour
MaxTokens == 1
\* the same, where the user is registered from the start
MaxReissued == 2
\* number of requests that end in a handler's catch block in one behaviour
MaxThrown == 1
\* number of pauses between the requests at the gates
MaxPauses == 2
\* pauses that end just short of a 15-minute window begun with the first
\* request, a second later, and on the last millisecond of the 24 hours a
\* failed-login entry is kept
GateGaps == {899990, 1000, 86400000}

Idle == [kind |-> "none", pc |-> "idle", email |-> "", token |-> 0,
         password |-> "", userId |-> 0, hash |-> NoEntry, expires |-> 0,
         resp |-> NoEntry]

Key == defaultKeyGenerator(client)

\* hist records what has happened, for stating the properties:
\*   issued     - how many tokens generateToken has returned
\*   consumed   - the tokens whose reset-password request returned 200
\*   pwUpdates  - per token, the user updates made by requests carrying it
\*   counted    - updateRateLimit calls that count, applied to the client's
\*                current rate-limit entry by direct library calls
\*   replaced   - a direct checkRateLimit has replaced an expired entry
\*                whose count had reached the limit
\*   forgiven   - a direct recordFailedLogin has found a streak of two or
\*                more failures whose last one was over an hour old
\*   mayIssue   - how many tokens generateToken hands out in this behaviour
\*   unswept    - the two stores as the direct library calls made so far
\*                would have left them had cleanupExpiredEntries never run
NoHistory == [issued |-> 0, consumed |-> {}, pwUpdates |-> [t \in {} |-> 0],
              counted |-> 0, replaced |-> FALSE, forgiven |-> FALSE,
              mayIssue |-> MaxTokens,
              unswept |-> [rl |-> [k \in Keys |-> NoEntry],
                           fl |-> [k \in Keys |-> NoEntry]]]

\* scenario follows the end-to-end scenario of the specification from the
\* initial state: the statuses answered so far while the requests made are
\* the scenario's, the time of the last answer and of the last request
OffScenario == [on |-> FALSE, st |-> <<>>, answeredAt |-> 0, startedAt |-> 0]

InitCommon ==
    /\ now = 0
    /\ ticks = 0
    /\ rateLimitStore = [k \in Keys |-> NoEntry]
    /\ failedLoginStore = [k \in Keys |-> NoEntry]
    /\ users = {}
    /\ tokens = {}
    /\ mailbox = {}
    /\ hist = NoHistory
    /\ thrown = 0

\* the library called on behalf of any one client
InitLib ==
    /\ InitCommon
    /\ client \in Headers
    /\ req = [s \in {1} |-> Idle]
    /\ scenario = OffScenario

\* the handlers serving a client behind a proxy, one request at a time
Init ==
    /\ InitCommon
    /\ client \in {h \in Headers : h.xff # ""}
    /\ req = [s \in {1} |-> Idle]
    /\ scenario = [OffScenario EXCEPT !.on = TRUE]

\* the handlers serving a client whose user registered before the process
\* started: the user row is in the database, the stores are empty
Registered == [id |-> 1, email |-> "alice@example.com",
               password |-> [bcrypt |-> "Secret123!"]]

InitRegistered(n) ==
    /\ now = 0
    /\ ticks = 0
    /\ rateLimitStore = [k \in Keys |-> NoEntry]
    /\ failedLoginStore = [k \in Keys |-> NoEntry]
    /\ users = {Registered}
    /\ tokens = {}
    /\ mailbox = {}
    /\ hist = [NoHistory EXCEPT !.mayIssue = n]
    /\ thrown = 0
    /\ client \in {h \in Headers : h.xff # ""}
    /\ req = [s \in {1} |-> Idle]
    /\ scenario = OffScenario

InitTokens == InitRegistered(MaxReissued)

InitGates == InitRegistered(MaxTokens)

\* the handlers with two requests in flight
InitConc ==
    /\ InitCommon
    /\ client \in {h \in Headers : h.xff # ""}
    /\ req = [s \in {1, 2} |-> Idle]
    /\ scenario = OffScenario

\* the clock advances
Tick ==
    /\ ticks < MaxTicks
    /\ \E d \in TickSet : now' = now + d
    /\ ticks' = ticks + 1
    /\ UNCHANGED <<client, libVars, dbVars, req, hist, scenario, thrown>>

\* time passes while no request is in flight
Elapse(gaps) ==
    /\ ticks < MaxTicks
    /\ \A s \in DOMAIN req : req[s].pc \in {"idle", "done"}
    /\ \E d \in gaps : now' = now + d
    /\ ticks' = ticks + 1
    /\ UNCHANGED <<client, libVars, dbVars, req, hist, scenario, thrown>>

\* time passes between the requests at the gates
Pause ==
    /\ ticks < MaxPauses
    /\ \A s \in DOMAIN req : req[s].pc \in {"idle", "done"}
    /\ \E d \in GateGaps : now' = now + d
    /\ ticks' = ticks + 1
    /\ UNCHANGED <<client, libVars, dbVars, req, hist, scenario, thrown>>

----------------------------------------------------------------------------
(* SpecLib: the library's exported functions called directly *)

Live(rl, key, t) == rl[key] # NoEntry /\ t <= rl[key].resetAt

LibCheckRateLimit ==
    \E c \in ConfigNames :
        LET cfg == rateLimitConfigs[c]
            old == rateLimitStore[Key] IN
        /\ rateLimitStore' = CheckStore(rateLimitStore, Key, cfg, now)
        /\ failedLoginStore' = CleanFailedLogin(failedLoginStore, now)
        /\ hist' = [IF Live(rateLimitStore, Key, now) THEN hist
                    ELSE [hist EXCEPT !.counted = 0,
                            !.replaced = @ \/ (old # NoEntry /\ old.count >= cfg.maxAttempts)]
                      EXCEPT !.unswept.rl = UnsweptCheckStore(@, Key, cfg, now)]
        /\ UNCHANGED <<now, ticks, client, dbVars, req, scenario, thrown>>

LibUpdateRateLimit ==
    \E c \in ConfigNames, success \in BOOLEAN :
        LET cfg == rateLimitConfigs[c] IN
        /\ rateLimitStore[Key] # NoEntry => rateLimitStore[Key].count < MaxCount
        /\ rateLimitStore[Key] # NoEntry => rateLimitStore[Key].failedAttempts < MaxCount
        /\ hist.unswept.rl[Key] # NoEntry
           => /\ hist.unswept.rl[Key].count < MaxCount
              /\ hist.unswept.rl[Key].failedAttempts < MaxCount
        /\ rateLimitStore' = UpdateStore(rateLimitStore, Key, cfg, success, now)
        /\ hist' = [IF rateLimitStore[Key] # NoEntry
                       /\ ~(success /\ cfg.skipSuccessfulRequests)
                       /\ ~(~success /\ cfg.skipFailedRequests)
                    THEN [hist EXCEPT !.counted = @ + 1]
                    ELSE hist
                      EXCEPT !.unswept.rl = UpdateStore(@, Key, cfg, success, now)]
        /\ UNCHANGED <<now, ticks, client, failedLoginStore, dbVars, req, scenario, thrown>>

LibCheckLoginDelay ==
    /\ failedLoginStore' = CleanFailedLogin(failedLoginStore, now)
    /\ rateLimitStore' = CleanRateLimit(rateLimitStore, now)
    /\ hist' = IF Live(rateLimitStore, Key, now) THEN hist
               ELSE [hist EXCEPT !.counted = 0]
    /\ UNCHANGED <<now, ticks, client, dbVars, req, scenario, thrown>>

LibRecordFailedLogin ==
    /\ failedLoginStore[Key] # NoEntry => failedLoginStore[Key].attempts < MaxAttempts
    /\ hist.unswept.fl[Key] # NoEntry => hist.unswept.fl[Key].attempts < MaxAttempts
    /\ failedLoginStore' = RecordStore(failedLoginStore, Key, now)
    /\ hist' = [hist EXCEPT !.forgiven =
                  @ \/ (/\ failedLoginStore[Key] # NoEntry
                        /\ failedLoginStore[Key].attempts >= 2
                        /\ now - failedLoginStore[Key].lastAttempt > 60 * 60 * 1000),
                            !.unswept.fl = RecordStore(@, Key, now)]
    /\ UNCHANGED <<now, ticks, client, rateLimitStore, dbVars, req, scenario, thrown>>

LibClearFailedLogins ==
    /\ failedLoginStore' = ClearStore(failedLoginStore, Key)
    /\ hist' = [hist EXCEPT !.unswept.fl = ClearStore(@, Key)]
    /\ UNCHANGED <<now, ticks, client, rateLimitStore, dbVars, req, scenario, thrown>>

NextLib ==
    \/ Tick
    \/ LibCheckRateLimit
    \/ LibUpdateRateLimit
    \/ LibCheckLoginDelay
    \/ LibRecordFailedLogin
    \/ LibClearFailedLogins

SpecLib == InitLib /\ [][NextLib]_vars

\* the stores as another identity's calls at time 0 have left them: a
\* login-class check and one failed update, and no or two recorded failed
\* logins
EarlierRateLimit(b) ==
    UpdateStore(CheckStore([k \in Keys |-> NoEntry], b, rateLimitConfigs["login"], 0),
                b, rateLimitConfigs["login"], FALSE, 0)

EarlierFailedLogins(b) ==
    {[k \in Keys |-> NoEntry],
     RecordStore(RecordStore([k \in Keys |-> NoEntry], b, 0), b, 0)}

\* the library called on behalf of a client after a client with another
\* identity has been served
InitClients ==
    /\ now = 0
    /\ ticks = 0
    /\ client \in Headers
    /\ \E b \in Keys \ {Key} :
          /\ rateLimitStore = EarlierRateLimit(b)
          /\ failedLoginStore \in EarlierFailedLogins(b)
    /\ users = {}
    /\ tokens = {}
    /\ mailbox = {}
    /\ hist = [NoHistory EXCEPT !.unswept = [rl |-> rateLimitStore,
                                             fl |-> failedLoginStore]]
    /\ thrown = 0
    /\ req = [s \in {1} |-> Idle]
    /\ scenario = OffScenario

SpecClients == InitClients /\ [][NextLib]_vars

----------------------------------------------------------------------------
(* Request bodies and the validation the handlers apply to them *)


Emails == {"alice@example.com", "bob@example.com", "not-an-email"}
RegisterEmails == {"alice@example.com", "not-an-email"}
Names == {"Alice", "A"}
RegisterPasswords == {"Secret123!", "weakpassword", "weak"}
LoginPasswords == {"Secret123!", "NewSecret123!", ""}
ResetPasswords == {"NewSecret123!", "weakpassword", "weak"}
\* a token is the n-th value of generateToken; 0 is the empty string
BodyTokens == 0 .. hist.mayIssue

\* z.string().email()
IsEmail(e) == e \in {"alice@example.com", "bob@example.com"}

\* the character classes occurring in a password
CharClasses(p) ==
    CASE p = "Secret123!" -> {"upper", "lower", "digit", "special"}
      [] p = "NewSecret123!" -> {"upper", "lower", "digit", "special"}
      [] p = "weakpassword" -> {"lower"}
      [] p = "weak" -> {"lower"}
      [] OTHER -> {}

\* the error codes validatePasswordStrength returns
validatePasswordStrength(p) ==
    (IF Len(p) < 8 THEN {"password.length"} ELSE {})
    \cup (IF "upper" \notin CharClasses(p) THEN {"password.uppercase"} ELSE {})
    \cup (IF "lower" \notin CharClasses(p) THEN {"password.lowercase"} ELSE {})
    \cup (IF "digit" \notin CharClasses(p) THEN {"password.number"} ELSE {})
    \cup (IF "special" \notin CharClasses(p) THEN {"password.special"} ELSE {})

registerSchema(b) ==
    Len(b.name) >= 2 /\ IsEmail(b.email) /\ Len(b.password) >= 8

loginSchema(b) == IsEmail(b.email) /\ Len(b.password) >= 1

forgotPasswordSchema(b) == IsEmail(b.email)

resetPasswordSchema(b) ==
    /\ b.token # 0
    /\ Len(b.password) >= 8
    /\ Len(b.confirmPassword) >= 8
    /\ b.password = b.confirmPassword

\* bcrypt: the hash is not the password, and compare accepts exactly the
\* password it was made from
hashPassword(p) == [bcrypt |-> p]
compare(p, h) == h = [bcrypt |-> p]

Json(status, message) ==
    [status |-> status, message |-> message, code |-> "", retryAfter |-> 0]

\* a new request takes the lowest slot that is free
CanStart(s) ==
    /\ s \in DOMAIN req
    /\ req[s].pc \in {"idle", "done"}
    /\ \A r \in DOMAIN req : r < s => req[r].pc \notin {"idle", "done"}

At(s, kind, pc) == s \in DOMAIN req /\ req[s].kind = kind /\ req[s].pc = pc

----------------------------------------------------------------------------
(* Following the end-to-end scenario *)

ScenarioKinds == <<"register", "login", "forgot", "reset", "login", "login">>

\* request r is the k-th request of the scenario
ScenarioRequest(k, r) ==
    /\ r.kind = ScenarioKinds[k]
    /\ CASE k = 1 -> r.email = "alice@example.com" /\ r.password = "Secret123!"
         [] k = 2 -> r.email = "alice@example.com" /\ r.password = "Secret123!"
         [] k = 3 -> r.email = "alice@example.com"
         [] k = 4 -> /\ \E m \in mailbox : m.token = r.token
                     /\ r.password = "NewSecret123!"
         [] k = 5 -> r.email = "alice@example.com" /\ r.password = "Secret123!"
         [] k = 6 -> r.email = "alice@example.com" /\ r.password = "NewSecret123!"

\* the scenario after request r is answered with resp: it goes on when r is
\* its next request, nothing threw, and the token was used within its 24 h
AfterAnswer(r, resp) ==
    LET k == Len(scenario.st) + 1 IN
    IF ~scenario.on THEN scenario
    ELSE IF /\ k <= 6
            /\ ScenarioRequest(k, r)
            /\ resp.status # 500
            /\ resp.message # "Password reset token has expired"
    THEN [scenario EXCEPT !.st = Append(@, resp.status),
                          !.answeredAt = IF k = 5 THEN now ELSE @]
    ELSE OffScenario

\* the scenario after a request of this kind is rejected by a gate
AfterRejection(kind, resp) ==
    LET k == Len(scenario.st) + 1 IN
    IF ~scenario.on THEN scenario
    ELSE IF k <= 6 /\ kind = ScenarioKinds[k]
    THEN [scenario EXCEPT !.st = Append(@, resp.status),
                          !.startedAt = IF k = 6 THEN now ELSE @]
    ELSE OffScenario

\* the scenario after a request of this kind is admitted by the gates
AfterAdmission(kind) ==
    LET k == Len(scenario.st) + 1 IN
    IF ~scenario.on THEN scenario
    ELSE IF k <= 6 /\ kind = ScenarioKinds[k]
    THEN [scenario EXCEPT !.startedAt = IF k = 6 THEN now ELSE @]
    ELSE OffScenario

----------------------------------------------------------------------------
(* What the four handlers share *)

\* what an awaited call can do: succeed, or throw while throws are left;
\* errors are injected only into requests handled one at a time
Outcomes ==
    IF thrown < MaxThrown /\ Cardinality(DOMAIN req) = 1 THEN BOOLEAN ELSE {TRUE}

\* the handler returns response r; its locals are gone, its input token kept
Return(s, r) ==
    /\ req' = [req EXCEPT ![s] = [Idle EXCEPT !.kind = req[s].kind, !.pc = "done",
                                              !.token = req[s].token, !.resp = r]]
    /\ scenario' = AfterAnswer(req[s], r)
    /\ thrown' = IF r.status = 500 THEN thrown + 1 ELSE thrown

\* the handler goes on to its next await
Goto(s, r) ==
    /\ req' = [req EXCEPT ![s] = r]
    /\ UNCHANGED <<scenario, thrown>>

\* the request after the gates: rejected with mw, or waiting for its body
Gated(s, kind, mw) ==
    /\ req' = [req EXCEPT ![s] =
            IF mw # NoEntry
            THEN [Idle EXCEPT !.kind = kind, !.pc = "done", !.resp = mw]
            ELSE [Idle EXCEPT !.kind = kind, !.pc = "json"]]
    /\ scenario' = IF mw # NoEntry THEN AfterRejection(kind, mw)
                   ELSE AfterAdmission(kind)
    /\ UNCHANGED thrown

\* the handler's rate-limit gate: checkRateLimit through the middleware
Gate(s, kind, c) ==
    /\ rateLimitStore' = CheckStore(rateLimitStore, Key, rateLimitConfigs[c], now)
    /\ failedLoginStore' = CleanFailedLogin(failedLoginStore, now)
    /\ Gated(s, kind, RateLimitMiddleware(rateLimitStore, Key, rateLimitConfigs[c], now))

\* the handlers never update the entry
Update_Never(c, success) == UNCHANGED rateLimitStore

\* updateRateLimit(request, rateLimitConfigs[c], success)
Update(c, success) ==
    rateLimitStore' = UpdateStore(rateLimitStore, Key, rateLimitConfigs[c], success, now)

\* the validation failure is answered without updateRateLimit
InvalidInput_NoUpdate(s, message) ==
    /\ UNCHANGED rateLimitStore
    /\ Return(s, Json(400, message))

\* a 400 for invalid input to a password-reset-class handler
InvalidInput(s, message) ==
    /\ Update("passwordReset", FALSE)
    /\ Return(s, Json(400, message))

----------------------------------------------------------------------------
(* POST /api/auth/register *)

RegisterStart(s) ==
    /\ CanStart(s)
    /\ Gate(s, "register", "auth")
    /\ UNCHANGED <<now, ticks, client, dbVars, hist>>

RegisterParse(s) ==
    /\ At(s, "register", "json")
    /\ \E wellFormed \in Outcomes, b \in [name : Names, email : RegisterEmails,
                                        password : RegisterPasswords] :
          IF ~wellFormed
          THEN Return(s, Json(500, "Failed to register user"))
          ELSE IF ~registerSchema(b)
          THEN Return(s, Json(400, "Invalid input data"))
          ELSE IF validatePasswordStrength(b.password) # {}
          THEN Return(s, Json(400, "Password does not meet security requirements"))
          ELSE Goto(s, [req[s] EXCEPT !.pc = "findUser", !.email = b.email,
                                      !.password = b.password])
    /\ UNCHANGED <<now, ticks, client, libVars, dbVars, hist>>

RegisterFindUser(s) ==
    /\ At(s, "register", "findUser")
    /\ \E ok \in Outcomes :
          IF ~ok
          THEN Return(s, Json(500, "Failed to register user"))
               /\ UNCHANGED rateLimitStore
          ELSE IF \E u \in users : u.email = req[s].email
          THEN Update("auth", FALSE)
               /\ Return(s, Json(409, "Email already registered"))
          ELSE Goto(s, [req[s] EXCEPT !.pc = "hash"])
               /\ UNCHANGED rateLimitStore
    /\ UNCHANGED <<now, ticks, client, failedLoginStore, dbVars, hist>>

RegisterHash(s) ==
    /\ At(s, "register", "hash")
    /\ Goto(s, [req[s] EXCEPT !.pc = "create", !.hash = hashPassword(req[s].password)])
    /\ UNCHANGED <<now, ticks, client, libVars, dbVars, hist>>

RegisterCreate(s) ==
    /\ At(s, "register", "create")
    /\ \E ok \in Outcomes :
          IF ~ok \/ \E u \in users : u.email = req[s].email
          THEN Return(s, Json(500, "Failed to register user"))
               /\ UNCHANGED <<rateLimitStore, users>>
          ELSE users' = users \cup {[id |-> Cardinality(users) + 1,
                                     email |-> req[s].email,
                                     password |-> req[s].hash]}
               /\ Update("auth", TRUE)
               /\ Return(s, Json(201, "User registered successfully"))
    /\ UNCHANGED <<now, ticks, client, failedLoginStore, tokens, mailbox, hist>>

----------------------------------------------------------------------------
(* POST /api/auth/login *)

\* recordFailedLogin(request); updateRateLimit(request, login, false)
\* the failure is counted but not recorded for the progressive delay
LoginFailed_NoRecord ==
    /\ UNCHANGED failedLoginStore
    /\ Update("login", FALSE)

LoginFailed ==
    /\ failedLoginStore' = RecordStore(failedLoginStore, Key, now)
    /\ Update("login", FALSE)

\* a request turned away by the login delay counts as one more failure
LoginStart_RecordRejected(s) ==
    /\ CanStart(s)
    /\ LET cfg == rateLimitConfigs["login"]
           mw == RateLimitMiddleware(rateLimitStore, Key, cfg, now)
           rl1 == CheckStore(rateLimitStore, Key, cfg, now)
           fl1 == CleanFailedLogin(failedLoginStore, now)
           delayed == LoginDelayMiddleware(fl1, Key, now)
       IN IF mw # NoEntry
          THEN /\ rateLimitStore' = rl1
               /\ failedLoginStore' = fl1
               /\ Gated(s, "login", mw)
          ELSE /\ rateLimitStore' = CleanRateLimit(rl1, now)
               /\ failedLoginStore' = IF delayed # NoEntry
                                      THEN RecordStore(fl1, Key, now)
                                      ELSE CleanFailedLogin(fl1, now)
               /\ Gated(s, "login", delayed)
    /\ UNCHANGED <<now, ticks, client, dbVars, hist>>

\* rateLimitMiddleware(request), then loginDelayMiddleware(request)
LoginStart(s) ==
    /\ CanStart(s)
    /\ LET cfg == rateLimitConfigs["login"]
           mw == RateLimitMiddleware(rateLimitStore, Key, cfg, now)
           rl1 == CheckStore(rateLimitStore, Key, cfg, now)
           fl1 == CleanFailedLogin(failedLoginStore, now)
       IN IF mw # NoEntry
          THEN /\ rateLimitStore' = rl1
               /\ failedLoginStore' = fl1
               /\ Gated(s, "login", mw)
          ELSE /\ rateLimitStore' = CleanRateLimit(rl1, now)
               /\ failedLoginStore' = CleanFailedLogin(fl1, now)
               /\ Gated(s, "login", LoginDelayMiddleware(fl1, Key, now))
    /\ UNCHANGED <<now, ticks, client, dbVars, hist>>

LoginParse(s) ==
    /\ At(s, "login", "json")
    /\ \E wellFormed \in Outcomes, b \in [email : Emails, password : LoginPasswords] :
          IF ~wellFormed
          THEN LoginFailed
               /\ Return(s, Json(500, "Failed to process login request"))
          ELSE IF ~loginSchema(b)
          THEN LoginFailed
               /\ Return(s, Json(400, "Invalid input data"))
          ELSE Goto(s, [req[s] EXCEPT !.pc = "findUser", !.email = b.email,
                                      !.password = b.password])
               /\ UNCHANGED libVars
    /\ UNCHANGED <<now, ticks, client, dbVars, hist>>

LoginFindUser(s) ==
    /\ At(s, "login", "findUser")
    /\ \E ok \in Outcomes :
          IF ~ok
          THEN LoginFailed
               /\ Return(s, Json(500, "Authentication failed"))
          ELSE IF ~\E u \in users : u.email = req[s].email
          THEN LoginFailed
               /\ Return(s, Json(401, "Invalid email or password"))
          ELSE LET u == CHOOSE u \in users : u.email = req[s].email
               IN Goto(s, [req[s] EXCEPT !.pc = "compare", !.userId = u.id,
                                         !.hash = u.password])
                  /\ UNCHANGED libVars
    /\ UNCHANGED <<now, ticks, client, dbVars, hist>>

LoginCompare(s) ==
    /\ At(s, "login", "compare")
    /\ IF ~compare(req[s].password, req[s].hash)
       THEN LoginFailed
            /\ Return(s, Json(401, "Invalid email or password"))
       ELSE /\ failedLoginStore' = ClearStore(failedLoginStore, Key)
            /\ Update("login", TRUE)
            /\ Return(s, Json(200, "Credentials validated successfully"))
    /\ UNCHANGED <<now, ticks, client, dbVars, hist>>

----------------------------------------------------------------------------
(* POST /api/auth/forgot-password *)

\* crypto.randomBytes(32): the n-th token generated, never one seen before
generateToken(n) == n + 1

\* the unknown address is reported
UnknownEmailResponse_404 == Json(404, "User not found")

\* the answer when no user has the e-mail address
UnknownEmailResponse ==
    Json(200, "If your email is registered, you will receive a password reset link.")

\* the answer after the reset link was sent
LinkSentResponse ==
    Json(200, "If your email is registered, you will receive a password reset link.")

Forgetting == {s \in DOMAIN req : req[s].kind = "forgot" /\ req[s].pc # "done"}

ForgotStart(s) ==
    /\ CanStart(s)
    /\ hist.issued + Cardinality(Forgetting) < hist.mayIssue
    /\ Gate(s, "forgot", "passwordReset")
    /\ UNCHANGED <<now, ticks, client, dbVars, hist>>

ForgotParse(s) ==
    /\ At(s, "forgot", "json")
    /\ \E wellFormed \in Outcomes, b \in [email : Emails] :
          IF ~wellFormed
          THEN Return(s, Json(500, "Failed to process password reset request"))
               /\ UNCHANGED rateLimitStore
          ELSE IF ~forgotPasswordSchema(b)
          THEN InvalidInput(s, "Invalid input data")
          ELSE Goto(s, [req[s] EXCEPT !.pc = "findUser", !.email = b.email])
               /\ UNCHANGED rateLimitStore
    /\ UNCHANGED <<now, ticks, client, failedLoginStore, dbVars, hist>>

\* an unregistered address is counted as a failed request
ForgotFindUser_CountUnknown(s) ==
    /\ At(s, "forgot", "findUser")
    /\ \E ok \in Outcomes :
          IF ~ok
          THEN Return(s, Json(500, "Failed to process password reset request"))
               /\ UNCHANGED <<rateLimitStore, hist>>
          ELSE IF ~\E u \in users : u.email = req[s].email
          THEN Update("passwordReset", FALSE)
               /\ Return(s, UnknownEmailResponse)
               /\ UNCHANGED hist
          ELSE LET u == CHOOSE u \in users : u.email = req[s].email
               IN Goto(s, [req[s] EXCEPT !.pc = "create", !.userId = u.id,
                                         !.token = generateToken(hist.issued),
                                         !.expires = now + resetTokenExpiry * 1000])
                  /\ hist' = [hist EXCEPT !.issued = @ + 1]
                  /\ UNCHANGED rateLimitStore
    /\ UNCHANGED <<now, ticks, client, failedLoginStore, dbVars>>

\* prisma.user.findUnique({ where: { email } }), then generateToken()
ForgotFindUser(s) ==
    /\ At(s, "forgot", "findUser")
    /\ \E ok \in Outcomes :
          IF ~ok
          THEN Return(s, Json(500, "Failed to process password reset request"))
               /\ UNCHANGED <<rateLimitStore, hist>>
          ELSE IF ~\E u \in users : u.email = req[s].email
          THEN Update("passwordReset", TRUE)
               /\ Return(s, UnknownEmailResponse)
               /\ UNCHANGED hist
          ELSE LET u == CHOOSE u \in users : u.email = req[s].email
               IN Goto(s, [req[s] EXCEPT !.pc = "create", !.userId = u.id,
                                         !.token = generateToken(hist.issued),
                                         !.expires = now + resetTokenExpiry * 1000])
                  /\ hist' = [hist EXCEPT !.issued = @ + 1]
                  /\ UNCHANGED rateLimitStore
    /\ UNCHANGED <<now, ticks, client, failedLoginStore, dbVars>>

\* issuing a token revokes the user's earlier tokens
ForgotCreate_Revoke(s) ==
    /\ At(s, "forgot", "create")
    /\ \E ok \in Outcomes :
          IF ~ok \/ \E r \in tokens : r.token = req[s].token
          THEN Return(s, Json(500, "Failed to process password reset request"))
               /\ UNCHANGED tokens
          ELSE tokens' = {r \in tokens : r.identifier # req[s].userId}
                         \cup {[identifier |-> req[s].userId,
                                token |-> req[s].token,
                                expires |-> req[s].expires]}
               /\ Goto(s, [req[s] EXCEPT !.pc = "mail"])
    /\ UNCHANGED <<now, ticks, client, libVars, users, mailbox, hist>>

\* prisma.verificationToken.create({ data: { identifier, token, expires } })
ForgotCreate(s) ==
    /\ At(s, "forgot", "create")
    /\ \E ok \in Outcomes :
          IF ~ok \/ \E r \in tokens : r.token = req[s].token
          THEN Return(s, Json(500, "Failed to process password reset request"))
               /\ UNCHANGED tokens
          ELSE tokens' = tokens \cup {[identifier |-> req[s].userId,
                                       token |-> req[s].token,
                                       expires |-> req[s].expires]}
               /\ Goto(s, [req[s] EXCEPT !.pc = "mail"])
    /\ UNCHANGED <<now, ticks, client, libVars, users, mailbox, hist>>

(* the token table, as forgot-password and reset-password use it *)

\* the expiry date is not looked at
IsExpired_Never(row, t) == FALSE

\* new Date() > verificationToken.expires
IsExpired(row, t) == t > row.expires

\* the used token is left in the table
DeleteToken_Keep(rows, token) == rows

\* prisma.verificationToken.delete({ where: { token } }) on an existing row
DeleteToken(rows, token) == {r \in rows : r.token # token}

\* a failed send takes the token row back out of the table
ForgotSendMail_Rollback(s) ==
    /\ At(s, "forgot", "mail")
    /\ \E ok \in Outcomes :
          IF ~ok
          THEN Return(s, Json(500, "Failed to process password reset request"))
               /\ tokens' = DeleteToken(tokens, req[s].token)
               /\ UNCHANGED <<rateLimitStore, mailbox>>
          ELSE mailbox' = mailbox \cup {[to |-> req[s].email, token |-> req[s].token]}
               /\ Update("passwordReset", TRUE)
               /\ Return(s, LinkSentResponse)
               /\ UNCHANGED tokens
    /\ UNCHANGED <<now, ticks, client, failedLoginStore, users, hist>>

\* sendPasswordResetEmail and the bookkeeping after it
ForgotSendMail(s) ==
    /\ At(s, "forgot", "mail")
    /\ \E ok \in Outcomes :
          IF ~ok
          THEN Return(s, Json(500, "Failed to process password reset request"))
               /\ UNCHANGED <<rateLimitStore, mailbox>>
          ELSE mailbox' = mailbox \cup {[to |-> req[s].email, token |-> req[s].token]}
               /\ Update("passwordReset", TRUE)
               /\ Return(s, LinkSentResponse)
    /\ UNCHANGED <<now, ticks, client, failedLoginStore, users, tokens, hist>>

----------------------------------------------------------------------------
(* POST /api/auth/reset-password *)

\* the number of password updates made so far on the authority of token t
PwUpdates(t) == IF t \in DOMAIN hist.pwUpdates THEN hist.pwUpdates[t] ELSE 0

ResetStart(s) ==
    /\ CanStart(s)
    /\ Gate(s, "reset", "passwordReset")
    /\ UNCHANGED <<now, ticks, client, dbVars, hist>>

ResetParse(s) ==
    /\ At(s, "reset", "json")
    /\ \E wellFormed \in Outcomes,
          b \in [token : BodyTokens, password : ResetPasswords,
                 confirmPassword : ResetPasswords] :
          IF ~wellFormed
          THEN Return(s, Json(500, "Failed to reset password"))
               /\ UNCHANGED rateLimitStore
          ELSE IF ~resetPasswordSchema(b)
          THEN InvalidInput(s, "Invalid input data")
          ELSE IF validatePasswordStrength(b.password) # {}
          THEN InvalidInput(s, "Password does not meet security requirements")
          ELSE Goto(s, [req[s] EXCEPT !.pc = "findToken", !.token = b.token,
                                      !.password = b.password])
               /\ UNCHANGED rateLimitStore
    /\ UNCHANGED <<now, ticks, client, failedLoginStore, dbVars, hist>>

ResetFindToken(s) ==
    /\ At(s, "reset", "findToken")
    /\ \E ok \in Outcomes :
          IF ~ok
          THEN Return(s, Json(500, "Failed to reset password"))
               /\ UNCHANGED rateLimitStore
          ELSE IF ~\E r \in tokens : r.token = req[s].token
          THEN Update("passwordReset", FALSE)
               /\ Return(s, Json(400, "Invalid or expired password reset token"))
          ELSE LET r == CHOOSE r \in tokens : r.token = req[s].token
               IN Goto(s, [req[s] EXCEPT !.pc = IF IsExpired(r, now)
                                                THEN "deleteExpired" ELSE "findUser",
                                         !.userId = r.identifier])
                  /\ UNCHANGED rateLimitStore
    /\ UNCHANGED <<now, ticks, client, failedLoginStore, dbVars, hist>>

ResetDeleteExpired(s) ==
    /\ At(s, "reset", "deleteExpired")
    /\ \E ok \in Outcomes :
          IF ~ok \/ ~\E r \in tokens : r.token = req[s].token
          THEN Return(s, Json(500, "Failed to reset password"))
               /\ UNCHANGED <<rateLimitStore, tokens>>
          ELSE tokens' = DeleteToken(tokens, req[s].token)
               /\ Update("passwordReset", FALSE)
               /\ Return(s, Json(400, "Password reset token has expired"))
    /\ UNCHANGED <<now, ticks, client, failedLoginStore, users, mailbox, hist>>

ResetFindUser(s) ==
    /\ At(s, "reset", "findUser")
    /\ \E ok \in Outcomes :
          IF ~ok
          THEN Return(s, Json(500, "Failed to reset password"))
               /\ UNCHANGED rateLimitStore
          ELSE IF ~\E u \in users : u.id = req[s].userId
          THEN Update("passwordReset", FALSE)
               /\ Return(s, Json(404, "User not found"))
          ELSE Goto(s, [req[s] EXCEPT !.pc = "hash"])
               /\ UNCHANGED rateLimitStore
    /\ UNCHANGED <<now, ticks, client, failedLoginStore, dbVars, hist>>

ResetHash(s) ==
    /\ At(s, "reset", "hash")
    /\ Goto(s, [req[s] EXCEPT !.pc = "updateUser",
                              !.hash = hashPassword(req[s].password)])
    /\ UNCHANGED <<now, ticks, client, libVars, dbVars, hist>>

\* the token row is deleted before the user is updated
ResetUpdateUser_DeleteFirst(s) ==
    /\ At(s, "reset", "updateUser")
    /\ tokens' = DeleteToken(tokens, req[s].token)
    /\ \E ok \in Outcomes :
          IF ~ok \/ ~\E u \in users : u.id = req[s].userId
          THEN Return(s, Json(500, "Failed to reset password"))
               /\ UNCHANGED <<users, hist>>
          ELSE users' = {IF u.id = req[s].userId
                         THEN [u EXCEPT !.password = req[s].hash]
                         ELSE u : u \in users}
               /\ hist' = [hist EXCEPT !.pwUpdates =
                     [t \in DOMAIN hist.pwUpdates \cup {req[s].token} |->
                        IF t # req[s].token THEN PwUpdates(t)
                        ELSE IF PwUpdates(t) = 0 THEN 1 ELSE 2]]
               /\ Goto(s, [req[s] EXCEPT !.pc = "deleteToken"])
    /\ UNCHANGED <<now, ticks, client, libVars, mailbox>>

\* prisma.user.update({ where: { id }, data: { password } })
ResetUpdateUser(s) ==
    /\ At(s, "reset", "updateUser")
    /\ \E ok \in Outcomes :
          IF ~ok \/ ~\E u \in users : u.id = req[s].userId
          THEN Return(s, Json(500, "Failed to reset password"))
               /\ UNCHANGED <<users, hist>>
          ELSE users' = {IF u.id = req[s].userId
                         THEN [u EXCEPT !.password = req[s].hash]
                         ELSE u : u \in users}
               /\ hist' = [hist EXCEPT !.pwUpdates =
                     [t \in DOMAIN hist.pwUpdates \cup {req[s].token} |->
                        IF t # req[s].token THEN PwUpdates(t)
                        ELSE IF PwUpdates(t) = 0 THEN 1 ELSE 2]]
               /\ Goto(s, [req[s] EXCEPT !.pc = "deleteToken"])
    /\ UNCHANGED <<now, ticks, client, libVars, tokens, mailbox>>

ResetDeleteToken(s) ==
    /\ At(s, "reset", "deleteToken")
    /\ \E ok \in Outcomes :
          IF ~ok \/ ~\E r \in tokens : r.token = req[s].token
          THEN Return(s, Json(500, "Failed to reset password"))
               /\ UNCHANGED <<rateLimitStore, tokens, hist>>
          ELSE tokens' = DeleteToken(tokens, req[s].token)
               /\ Update("passwordReset", TRUE)
               /\ Return(s, Json(200, "Password has been reset successfully"))
               /\ hist' = [hist EXCEPT !.consumed = @ \cup {req[s].token}]
    /\ UNCHANGED <<now, ticks, client, failedLoginStore, users, mailbox>>

----------------------------------------------------------------------------
(* Spec: requests handled one at a time; SpecConc: two requests in flight   *)

Handlers ==
    \/ \E s \in DOMAIN req : RegisterStart(s)
    \/ \E s \in DOMAIN req : RegisterParse(s)
    \/ \E s \in DOMAIN req : RegisterFindUser(s)
    \/ \E s \in DOMAIN req : RegisterHash(s)
    \/ \E s \in DOMAIN req : RegisterCreate(s)
    \/ \E s \in DOMAIN req : LoginStart(s)
    \/ \E s \in DOMAIN req : LoginParse(s)
    \/ \E s \in DOMAIN req : LoginFindUser(s)
    \/ \E s \in DOMAIN req : LoginCompare(s)
    \/ \E s \in DOMAIN req : ForgotStart(s)
    \/ \E s \in DOMAIN req : ForgotParse(s)
    \/ \E s \in DOMAIN req : ForgotFindUser(s)
    \/ \E s \in DOMAIN req : ForgotCreate(s)
    \/ \E s \in DOMAIN req : ForgotSendMail(s)
    \/ \E s \in DOMAIN req : ResetStart(s)
    \/ \E s \in DOMAIN req : ResetParse(s)
    \/ \E s \in DOMAIN req : ResetFindToken(s)
    \/ \E s \in DOMAIN req : ResetDeleteExpired(s)
    \/ \E s \in DOMAIN req : ResetFindUser(s)
    \/ \E s \in DOMAIN req : ResetHash(s)
    \/ \E s \in DOMAIN req : ResetUpdateUser(s)
    \/ \E s \in DOMAIN req : ResetDeleteToken(s)

Next == Elapse(RequestGaps) \/ Handlers

Spec == Init /\ [][Next]_vars

\* forgot-password and reset-password requests for a registered user
NextTokens ==
    \/ Elapse({1000, resetTokenExpiry * 1000 + 1})
    \/ \E s \in DOMAIN req : ForgotStart(s)
    \/ \E s \in DOMAIN req : ForgotParse(s)
    \/ \E s \in DOMAIN req : ForgotFindUser(s)
    \/ \E s \in DOMAIN req : ForgotCreate(s)
    \/ \E s \in DOMAIN req : ForgotSendMail(s)
    \/ \E s \in DOMAIN req : ResetStart(s)
    \/ \E s \in DOMAIN req : ResetParse(s)
    \/ \E s \in DOMAIN req : ResetFindToken(s)
    \/ \E s \in DOMAIN req : ResetDeleteExpired(s)
    \/ \E s \in DOMAIN req : ResetFindUser(s)
    \/ \E s \in DOMAIN req : ResetHash(s)
    \/ \E s \in DOMAIN req : ResetUpdateUser(s)
    \/ \E s \in DOMAIN req : ResetDeleteToken(s)

SpecTokens == InitTokens /\ [][NextTokens]_vars

\* login and forgot-password requests of a registered user, at the gates
NextGates ==
    \/ Pause
    \/ \E s \in DOMAIN req : LoginStart(s)
    \/ \E s \in DOMAIN req : LoginParse(s)
    \/ \E s \in DOMAIN req : LoginFindUser(s)
    \/ \E s \in DOMAIN req : LoginCompare(s)
    \/ \E s \in DOMAIN req : ForgotStart(s)
    \/ \E s \in DOMAIN req : ForgotParse(s)
    \/ \E s \in DOMAIN req : ForgotFindUser(s)
    \/ \E s \in DOMAIN req : ForgotCreate(s)
    \/ \E s \in DOMAIN req : ForgotSendMail(s)

SpecGates == InitGates /\ [][NextGates]_vars

\* the day passes after which the tokens issued so far have expired
Expire ==
    /\ \E r \in tokens : ~IsExpired(r, now)
    /\ Elapse({resetTokenExpiry * 1000 + 1})

\* two requests racing
NextConc == Expire \/ Handlers

SpecConc == InitConc /\ [][NextConc]_vars

----------------------------------------------------------------------------
(* Properties *)

Entry == rateLimitStore[Key]

\* C1 - token single use: once a reset-password request with token T has
\* returned 200, a reset-password request carrying T is never past the token
\* lookup; its lookup is answered 400 "Invalid or expired password reset
\* token" (500 if the lookup itself throws), never "has expired", and it
\* changes no user and no token row.
C1_TokenSingleUse ==
    [][\A s \in DOMAIN req :
         (req[s].kind = "reset" /\ req[s].token \in hist.consumed
            /\ req[s].pc \notin {"idle", "done"})
         => /\ req[s].pc = "findToken"
            /\ req'[s] # req[s]
               => /\ req'[s].pc = "done"
                  /\ \/ req'[s].resp = Json(400, "Invalid or expired password reset token")
                     \/ req'[s].resp.status = 500
                  /\ users' = users
                  /\ tokens' = tokens]_vars

C1_Witness ==
    \E s \in DOMAIN req :
        /\ req[s].kind = "reset" /\ req[s].pc = "done"
        /\ req[s].token \in hist.consumed
        /\ req[s].resp = Json(400, "Invalid or expired password reset token")

\* C2 - one password change per token: whatever the interleaving of the
\* reset-password handlers, the requests carrying one token make at most one
\* user password update.
C2_OneUpdatePerToken ==
    \A t \in DOMAIN hist.pwUpdates : hist.pwUpdates[t] <= 1

\* C3 - quota monotonicity: within a window, checkRateLimit under a config
\* returns isLimited and remaining 0 once maxAttempts counted updates have
\* been applied, and not limited with remaining = maxAttempts - counted
\* before that.
C3_QuotaMonotonicity ==
    \A c \in ConfigNames :
        Live(rateLimitStore, Key, now)
        => LET cfg == rateLimitConfigs[c]
               r == CheckResult(rateLimitStore, Key, cfg, now)
           IN IF hist.counted >= cfg.maxAttempts
              THEN r.isLimited /\ r.remaining = 0
              ELSE ~r.isLimited /\ r.remaining = cfg.maxAttempts - hist.counted

C3_Witness ==
    /\ Live(rateLimitStore, Key, now)
    /\ hist.counted = rateLimitConfigs["login"].maxAttempts
    /\ CheckResult(rateLimitStore, Key, rateLimitConfigs["login"], now).isLimited

\* C4 - per-class state: an updateRateLimit call under one class's config
\* leaves what checkRateLimit returns under every other class's config
\* unchanged for the same identity.
C4_PerClassState ==
    [][\A c, d \in ConfigNames :
         (/\ c # d
          /\ now' = now
          /\ failedLoginStore' = failedLoginStore
          /\ \E success \in BOOLEAN :
                rateLimitStore' = UpdateStore(rateLimitStore, Key,
                                              rateLimitConfigs[d], success, now))
         => CheckResult(rateLimitStore', Key, rateLimitConfigs[c], now)
            = CheckResult(rateLimitStore, Key, rateLimitConfigs[c], now)]_vars

\* C5 - rate-limit exhaustion: every 400 for invalid input from
\* forgot-password or reset-password adds one to the identity's count, the
\* count does not go down while the window lasts, and a forgot-password or
\* reset-password request arriving in the window with count >= 3 is answered
\* 429 RATE_LIMIT_EXCEEDED at once, whatever its payload, without touching
\* users, tokens or mail.
C5_Exhaustion ==
    [][\A s \in DOMAIN req :
         /\ (/\ req[s].kind \in {"forgot", "reset"} /\ req[s].pc = "json"
             /\ req'[s].pc = "done" /\ req'[s].resp.status = 400)
            => /\ Entry # NoEntry /\ Entry' # NoEntry
               /\ Entry'.count = Entry.count + 1
               /\ Entry'.resetAt = Entry.resetAt
         /\ Live(rateLimitStore, Key, now)
            => /\ Entry' # NoEntry
               /\ Entry'.resetAt = Entry.resetAt
               /\ Entry'.count >= Entry.count
         /\ (/\ Live(rateLimitStore, Key, now)
             /\ Entry.count >= rateLimitConfigs["passwordReset"].maxAttempts
             /\ req[s].pc \in {"idle", "done"}
             /\ req'[s] # req[s]
             /\ req'[s].kind \in {"forgot", "reset"})
            => /\ req'[s].pc = "done"
               /\ req'[s].resp.status = 429
               /\ req'[s].resp.code = "RATE_LIMIT_EXCEEDED"
               /\ <<users, tokens, mailbox>>' = <<users, tokens, mailbox>>]_vars

C5_Witness ==
    \E s \in DOMAIN req :
        /\ req[s].kind \in {"forgot", "reset"} /\ req[s].pc = "done"
        /\ req[s].resp.code = "RATE_LIMIT_EXCEEDED"
        /\ Entry # NoEntry /\ Entry.count = 3 /\ Entry.failedAttempts = 3
        /\ failedLoginStore[Key] = NoEntry
        /\ users = {} /\ ticks = 0

\* C6 - anti-enumeration: a forgot-password request with a valid e-mail
\* address that ends without a thrown error is answered 200 with the one
\* fixed message, whether or not the address is registered; for an
\* unregistered address it writes no token row and sends no mail; token rows
\* and mail are only ever made for registered users.
C6_AntiEnumeration ==
    [][\A s \in DOMAIN req :
         /\ (/\ req[s].kind = "forgot"
             /\ req[s].pc \in {"findUser", "create", "mail"}
             /\ req'[s].pc = "done"
             /\ req'[s].resp.status # 500)
            => req'[s].resp = Json(200,
                 "If your email is registered, you will receive a password reset link.")
         /\ (/\ At(s, "forgot", "findUser")
             /\ ~\E u \in users : u.email = req[s].email
             /\ req'[s] # req[s])
            => /\ req'[s].pc = "done"
               /\ <<users, tokens, mailbox>>' = <<users, tokens, mailbox>>
         /\ \A r \in tokens' \ tokens : \E u \in users : u.id = r.identifier
         /\ \A m \in mailbox' \ mailbox : \E u \in users : u.email = m.to]_vars

C6_Witness ==
    \E s \in DOMAIN req :
        /\ req[s].kind = "forgot" /\ req[s].pc = "done"
        /\ req[s].resp.status = 200
        /\ users # {} /\ hist.issued = 0 /\ tokens = {} /\ mailbox = {}

\* C7 - token expiry: a reset-password request whose token row exists with
\* now > expires goes on to delete that row and, unless the store throws,
\* is answered 400 "Password reset token has expired" with the row gone; it
\* updates no user.
C7_TokenExpiry ==
    [][\A s \in DOMAIN req :
         /\ (/\ At(s, "reset", "findToken")
             /\ \E r \in tokens : r.token = req[s].token /\ now > r.expires
             /\ req'[s] # req[s])
            => /\ users' = users
               /\ \/ req'[s].pc = "deleteExpired"
                  \/ req'[s].pc = "done" /\ req'[s].resp.status = 500
         /\ (At(s, "reset", "deleteExpired") /\ req'[s] # req[s])
            => /\ users' = users
               /\ req'[s].pc = "done"
               /\ \/ /\ req'[s].resp = Json(400, "Password reset token has expired")
                     /\ ~\E r \in tokens' : r.token = req[s].token
                  \/ req'[s].resp.status = 500]_vars

C7_Witness ==
    \E s \in DOMAIN req :
        /\ req[s].kind = "reset" /\ req[s].pc = "done"
        /\ req[s].resp = Json(400, "Password reset token has expired")
        /\ \E m \in mailbox : m.token = req[s].token
        /\ ~\E r \in tokens : r.token = req[s].token

\* C8 - end-to-end scenario as the specification states it: from empty
\* stores the six requests are answered 201, 200, 200, 200, 401, 200,
\* however little time passes between them.
C8_EndToEnd ==
    scenario.on
    => /\ Len(scenario.st) <= 6
       /\ \A i \in 1 .. Len(scenario.st) :
             scenario.st[i] = <<201, 200, 200, 200, 401, 200>>[i]

\* C8, amended - the first five requests are answered 201, 200, 200, 200,
\* 401; the login with the new password is answered 200 when it is made at
\* least 1000 ms after the 401 and 429 LOGIN_DELAY when it is made sooner.
C8_EndToEndAfterDelay ==
    scenario.on
    => /\ Len(scenario.st) <= 6
       /\ \A i \in 1 .. Len(scenario.st) :
             i <= 5 => scenario.st[i] = <<201, 200, 200, 200, 401>>[i]
       /\ Len(scenario.st) = 6
          => IF scenario.startedAt - scenario.answeredAt >= 1000
             THEN scenario.st[6] = 200
             ELSE /\ scenario.st[6] = 429
                  /\ \A s \in DOMAIN req : req[s].resp.code = "LOGIN_DELAY"

C8_Witness ==
    /\ scenario.on
    /\ scenario.st = <<201, 200, 200, 200, 401, 200>>
    /\ scenario.startedAt - scenario.answeredAt = 1000

\* C9 - window reset: a checkRateLimit made when the identity's entry has
\* now > resetAt, whatever its count, leaves an entry with count 0,
\* failedAttempts 0 and resetAt = now + windowMs, and returns isLimited
\* false with remaining = maxAttempts.
C9_WindowReset ==
    [][\A c \in ConfigNames :
         LET cfg == rateLimitConfigs[c] IN
         (/\ Entry # NoEntry
          /\ now > Entry.resetAt
          /\ now' = now
          /\ rateLimitStore' = CheckStore(rateLimitStore, Key, cfg, now))
         => /\ Entry' # NoEntry
            /\ Entry'.count = 0
            /\ Entry'.failedAttempts = 0
            /\ Entry'.resetAt = now + cfg.windowMs
            /\ CheckResult(rateLimitStore, Key, cfg, now)
               = [isLimited |-> FALSE, remaining |-> cfg.maxAttempts,
                  resetAt |-> now + cfg.windowMs]]_vars

C9_Witness ==
    /\ hist.replaced
    /\ Entry # NoEntry /\ Entry.count = 0 /\ Entry.resetAt > now

\* C10 - skip-successful semantics: under a config with
\* skipSuccessfulRequests and without skipFailedRequests,
\* updateRateLimit(success = true) leaves count as it is and
\* updateRateLimit(success = false) on an existing entry adds exactly 1.
C10_SkipSuccessful ==
    [][\A c \in ConfigNames :
         LET cfg == rateLimitConfigs[c] IN
         (/\ cfg.skipSuccessfulRequests /\ ~cfg.skipFailedRequests
          /\ Entry # NoEntry
          /\ now' = now
          /\ failedLoginStore' = failedLoginStore)
         => /\ rateLimitStore' = UpdateStore(rateLimitStore, Key, cfg, TRUE, now)
               => Entry' # NoEntry /\ Entry'.count = Entry.count
            /\ rateLimitStore' = UpdateStore(rateLimitStore, Key, cfg, FALSE, now)
               => Entry' # NoEntry /\ Entry'.count = Entry.count + 1]_vars

C10_Witness ==
    /\ Entry # NoEntry
    /\ Entry.count = 2 /\ Entry.failedAttempts = 2
    /\ hist.counted = 2

\* C11 - validation failures count: in each of the four handlers, a request
\* that passed the gates and is answered 400 for its body adds one to the
\* identity's rate-limit count.
C11_ValidationCounts ==
    [][\A s \in DOMAIN req :
         (/\ req[s].pc = "json"
          /\ req'[s].pc = "done"
          /\ req'[s].resp.status = 400)
         => /\ Entry # NoEntry /\ Entry' # NoEntry
            /\ Entry'.count = Entry.count + 1]_vars

FailedEntry == failedLoginStore[Key]

\* C12 - progressive delay table: calculateProgressiveDelay is 0 up to 0,
\* then 1000, 2000, 4000, 8000, 16000 for 1 to 5, then 30000; and
\* recordFailedLogin at time t leaves nextAllowedAt = t + the table's value
\* for the attempts it leaves.
C12_DelayTable ==
    [][/\ \A n \in -2 .. 0 : calculateProgressiveDelay(n) = 0
       /\ [n \in 1 .. 5 |-> calculateProgressiveDelay(n)]
          = <<1000, 2000, 4000, 8000, 16000>>
       /\ \A n \in 6 .. 12 : calculateProgressiveDelay(n) = 30000
       /\ (/\ now' = now
           /\ rateLimitStore' = rateLimitStore
           /\ failedLoginStore' = RecordStore(failedLoginStore, Key, now))
          => /\ FailedEntry' # NoEntry
             /\ FailedEntry'.attempts >= 1
             /\ FailedEntry'.lastAttempt = now
             /\ FailedEntry'.nextAllowedAt =
                  now + (IF FailedEntry'.attempts <= 5
                         THEN <<1000, 2000, 4000, 8000, 16000>>[FailedEntry'.attempts]
                         ELSE 30000)]_vars

C12_Witness ==
    /\ FailedEntry # NoEntry
    /\ FailedEntry.attempts = 6
    /\ FailedEntry.lastAttempt = now
    /\ FailedEntry.nextAllowedAt = now + 30000

\* C13 - delay forgiveness on success: every login answered 200 has cleared
\* the identity's failed-login entry, however many failures it held, so that
\* checkLoginDelay at once returns isDelayed false with delayMs 0; and any
\* clearFailedLogins on an existing entry has that effect.
C13_ForgivenOnSuccess ==
    [][/\ \A s \in DOMAIN req :
            (/\ req[s].kind = "login" /\ req[s].pc = "compare"
             /\ req'[s].pc = "done" /\ req'[s].resp.status = 200)
            => /\ FailedEntry' = NoEntry
               /\ DelayResult(failedLoginStore', Key, now')
                  = [isDelayed |-> FALSE, delayMs |-> 0, nextAllowedAt |-> now']
       /\ (/\ FailedEntry # NoEntry
           /\ failedLoginStore' = ClearStore(failedLoginStore, Key))
          => /\ FailedEntry' = NoEntry
             /\ ~DelayResult(failedLoginStore', Key, now').isDelayed]_vars

C13_Witness ==
    /\ scenario.on
    /\ Len(scenario.st) = 6
    /\ scenario.st[5] = 401 /\ scenario.st[6] = 200
    /\ FailedEntry = NoEntry
    /\ Entry # NoEntry /\ Entry.failedAttempts = 1
    /\ ~DelayResult(failedLoginStore, Key, now).isDelayed

\* C14 - delay decay: while a failed-login entry exists, checkLoginDelay
\* returns isDelayed true with delayMs = nextAllowedAt - now at every
\* now < nextAllowedAt, and isDelayed false with delayMs 0 at every
\* now >= nextAllowedAt, no clearFailedLogins being needed.
C14_DelayDecay ==
    FailedEntry # NoEntry
    => LET r == DelayResult(failedLoginStore, Key, now) IN
       IF now < FailedEntry.nextAllowedAt
       THEN r = [isDelayed |-> TRUE,
                 delayMs |-> FailedEntry.nextAllowedAt - now,
                 nextAllowedAt |-> FailedEntry.nextAllowedAt]
       ELSE r = [isDelayed |-> FALSE, delayMs |-> 0, nextAllowedAt |-> now]

C14_Witness ==
    /\ FailedEntry # NoEntry
    /\ FailedEntry.attempts = 1
    /\ now = FailedEntry.nextAllowedAt
    /\ now = FailedEntry.lastAttempt + 1000
    /\ ~DelayResult(failedLoginStore, Key, now).isDelayed

\* C15 - login failure is the same whatever its cause: a login for an
\* unknown e-mail address and one for a known address with a wrong password
\* are both answered 401 "Invalid email or password", record one failed
\* login and make one failed rate-limit update.
C15_SameFailure ==
    [][\A s \in DOMAIN req :
         (\/ /\ At(s, "login", "findUser")
             /\ ~\E u \in users : u.email = req[s].email
             /\ req'[s].pc = "done" /\ req'[s].resp.status # 500
          \/ /\ At(s, "login", "compare")
             /\ \E u \in users : u.email = req[s].email
                                 /\ u.password # hashPassword(req[s].password)
             /\ req'[s].pc = "done")
         => /\ req'[s].resp = Json(401, "Invalid email or password")
            /\ failedLoginStore' = RecordStore(failedLoginStore, Key, now)
            /\ FailedEntry' # NoEntry /\ FailedEntry'.lastAttempt = now
            /\ Entry # NoEntry /\ Entry' # NoEntry
            /\ Entry'.count = Entry.count + 1
            /\ Entry'.failedAttempts = Entry.failedAttempts + 1
            /\ <<users, tokens, mailbox>>' = <<users, tokens, mailbox>>]_vars

C15_Witness ==
    \E s \in DOMAIN req :
        /\ req[s].kind = "login" /\ req[s].pc = "done"
        /\ req[s].resp = Json(401, "Invalid email or password")
        /\ users = {}
        /\ FailedEntry # NoEntry /\ FailedEntry.attempts = 1
        /\ Entry # NoEntry /\ Entry.count = 1

\* C16 - duplicate registration: a register request whose e-mail address is
\* already registered is answered 409, creates no user, and adds one to the
\* identity's rate-limit count.
C16_DuplicateEmail ==
    [][\A s \in DOMAIN req :
         (/\ At(s, "register", "findUser")
          /\ \E u \in users : u.email = req[s].email
          /\ req'[s] # req[s]
          /\ req'[s].resp.status # 500)
         => /\ req'[s].pc = "done"
            /\ req'[s].resp = Json(409, "Email already registered")
            /\ users' = users
            /\ Entry # NoEntry /\ Entry' # NoEntry
            /\ Entry'.count = Entry.count + 1]_vars

C16_Witness ==
    \E s \in DOMAIN req :
        /\ req[s].kind = "register" /\ req[s].pc = "done"
        /\ req[s].resp.status = 409
        /\ Cardinality(users) = 1
        /\ Entry # NoEntry /\ Entry.count = 1 /\ Entry.failedAttempts = 1

\* C17 - check-then-update is not atomic: requests in flight together can
\* all pass the gate before any of them updates the entry, so with two in
\* flight the count reaches maxAttempts + 1; it exceeds the largest
\* maxAttempts by no more than the requests in flight less one.
C17_OverAdmit ==
    Entry # NoEntry
    => Entry.count <= rateLimitConfigs["login"].maxAttempts
                      + Cardinality(DOMAIN req) - 1

C17_Witness ==
    /\ Entry # NoEntry
    /\ Entry.count = rateLimitConfigs["login"].maxAttempts + 1
    /\ now <= Entry.resetAt
    /\ \A s \in DOMAIN req :
          /\ req[s].kind = "login" /\ req[s].pc = "done"
          /\ req[s].resp.status \in {400, 401}

\* C18 - checkRateLimit leaves a live entry alone: when the identity's entry
\* exists and now <= resetAt, a checkRateLimit under any config changes
\* nothing in the rate-limit store, so a check made after it returns what a
\* check made before it returned.
C18_CheckIsPure ==
    [][\A c \in ConfigNames :
         (/\ Live(rateLimitStore, Key, now)
          /\ now' = now
          /\ rateLimitStore' = CheckStore(rateLimitStore, Key, rateLimitConfigs[c], now))
         => /\ Entry' = Entry
            /\ rateLimitStore' = rateLimitStore
            /\ \A d \in ConfigNames :
                  CheckResult(rateLimitStore', Key, rateLimitConfigs[d], now)
                  = CheckResult(rateLimitStore, Key, rateLimitConfigs[d], now)]_vars

C18_Witness ==
    /\ Live(rateLimitStore, Key, now)
    /\ Entry.count = 3 /\ hist.counted = 3
    /\ CheckStore(rateLimitStore, Key, rateLimitConfigs["passwordReset"], now)
       = rateLimitStore
    /\ CheckResult(rateLimitStore, Key, rateLimitConfigs["passwordReset"], now).isLimited
    /\ ~CheckResult(rateLimitStore, Key, rateLimitConfigs["auth"], now).isLimited

\* C19 - updateRateLimit without an entry: when the identity has no entry,
\* updateRateLimit under any config, with success true or false, leaves the
\* rate-limit store as it is and creates no entry.
C19_UpdateNeedsEntry ==
    Entry = NoEntry
    => \A c \in ConfigNames, success \in BOOLEAN :
          UpdateStore(rateLimitStore, Key, rateLimitConfigs[c], success, now)
          = rateLimitStore

C19_Witness ==
    /\ Entry = NoEntry
    /\ now > 0
    /\ FailedEntry # NoEntry /\ FailedEntry.attempts = 2
    /\ UpdateStore(rateLimitStore, Key, rateLimitConfigs["login"], FALSE, now)[Key]
       = NoEntry

\* C20 - stale-streak forgiveness: recordFailedLogin on an entry whose
\* lastAttempt is more than an hour old leaves attempts = 1 and
\* nextAllowedAt = now + 1000 whatever attempts was; on an entry at most an
\* hour old it leaves attempts one higher.
C20_StaleStreak ==
    [][(/\ FailedEntry # NoEntry
        /\ now' = now
        /\ rateLimitStore' = rateLimitStore
        /\ failedLoginStore' = RecordStore(failedLoginStore, Key, now))
       => /\ FailedEntry' # NoEntry
          /\ IF now - FailedEntry.lastAttempt > 3600000
             THEN /\ FailedEntry'.attempts = 1
                  /\ FailedEntry'.nextAllowedAt = now + 1000
             ELSE FailedEntry'.attempts = FailedEntry.attempts + 1]_vars

C20_Witness ==
    /\ hist.forgiven
    /\ FailedEntry # NoEntry
    /\ FailedEntry.attempts = 1
    /\ FailedEntry.lastAttempt = now
    /\ FailedEntry.nextAllowedAt = now + 1000

\* C21 - consume ordering: a reset-password request removes a token row only
\* when the row has expired or when the user's password has already been
\* set to the request's hash on the authority of that token; the password
\* update itself removes no row, and when it fails it changes no user and
\* ends the request with a 500, the token row still in the table.
C21_ConsumeOrdering ==
    [][\A s \in DOMAIN req :
         /\ \A r \in tokens \ tokens' :
               \/ IsExpired(r, now)
               \/ /\ PwUpdates(r.token) >= 1
                  /\ \E u \in users : u.id = r.identifier
                                       /\ u.password = req[s].hash
         /\ (At(s, "reset", "updateUser") /\ req'[s] # req[s])
            => /\ tokens' = tokens
               /\ \E r \in tokens' : r.token = req[s].token
               /\ \/ /\ req'[s].pc = "deleteToken"
                     /\ PwUpdates(req[s].token)' >= 1
                  \/ /\ req'[s].pc = "done"
                     /\ req'[s].resp = Json(500, "Failed to reset password")
                     /\ users' = users
                     /\ hist' = hist]_vars

\* the password has been updated and the token row is still to be deleted
C21_Witness ==
    \E s \in DOMAIN req :
        /\ At(s, "reset", "deleteToken")
        /\ PwUpdates(req[s].token) = 1
        /\ \E r \in tokens : r.token = req[s].token /\ ~IsExpired(r, now)
        /\ \E u \in users : u.id = req[s].userId /\ u.password = req[s].hash

\* C22 - issuing does not revoke: a forgot-password request removes or
\* alters no token row, and the one that reaches the insert adds exactly its
\* own row; a reset-password request removes no row but the one of the token
\* it carries; and a reset-password request whose token row is in the table,
\* unexpired, with its user present, is never answered 400 or 404 whatever
\* other tokens have been consumed: it ends 200 unless a call throws.
C22_IssuingKeepsTokens ==
    [][\A s \in DOMAIN req :
         /\ (req[s].kind = "forgot" /\ req'[s] # req[s])
            => /\ tokens \subseteq tokens'
               /\ (req[s].pc = "create" /\ req'[s].pc = "mail")
                  => tokens' = tokens \cup {[identifier |-> req[s].userId,
                                             token |-> req[s].token,
                                             expires |-> req[s].expires]}
                     /\ tokens' # tokens
         /\ (req[s].kind = "reset" /\ req'[s] # req[s])
            => /\ tokens' \subseteq tokens
               /\ \A r \in tokens \ tokens' : r.token = req[s].token
               /\ (/\ req[s].pc \in {"findToken", "findUser", "hash",
                                      "updateUser", "deleteToken"}
                   /\ \E r \in tokens :
                         /\ r.token = req[s].token /\ ~IsExpired(r, now)
                         /\ \E u \in users : u.id = r.identifier
                   /\ req'[s].pc = "done")
                  => \/ req'[s].resp.status = 500
                     \/ /\ req[s].pc = "deleteToken"
                        /\ req'[s].resp.status = 200
                        /\ PwUpdates(req[s].token) >= 1]_vars

\* the first token issued has been consumed after the second one was
C22_Witness ==
    \E s \in DOMAIN req :
        /\ req[s].kind = "reset" /\ req[s].pc = "done"
        /\ req[s].resp.status = 200
        /\ req[s].token = generateToken(0)
        /\ hist.consumed = {generateToken(0), generateToken(1)}
        /\ PwUpdates(generateToken(0)) = 1 /\ PwUpdates(generateToken(1)) = 1

\* C23 - a failed send: when sendPasswordResetEmail throws, the
\* forgot-password request is answered 500 "Failed to process password reset
\* request", not the 200 message, the token row created just before stays in
\* the table, and a reset-password request carrying that token, never
\* mailed, is looked up like any other: unexpired, it goes on to the user.
C23_MailFailure ==
    [][\A s \in DOMAIN req :
         /\ (At(s, "forgot", "mail") /\ req'[s] # req[s] /\ mailbox' = mailbox)
            => /\ req'[s].pc = "done"
               /\ req'[s].resp = Json(500, "Failed to process password reset request")
               /\ req'[s].resp # LinkSentResponse
               /\ tokens' = tokens
               /\ \E r \in tokens' : r.token = req[s].token
         /\ (/\ At(s, "reset", "findToken")
             /\ \A m \in mailbox : m.token # req[s].token
             /\ \E r \in tokens : r.token = req[s].token /\ ~IsExpired(r, now)
             /\ req'[s] # req[s])
            => \/ req'[s].pc = "findUser"
               \/ req'[s].pc = "done" /\ req'[s].resp.status = 500]_vars

\* a token whose mail was never sent has been consumed
C23_Witness ==
    \E s \in DOMAIN req :
        /\ req[s].kind = "reset" /\ req[s].pc = "done"
        /\ req[s].resp = Json(200, "Password has been reset successfully")
        /\ req[s].token \in hist.consumed
        /\ \A m \in mailbox : m.token # req[s].token
        /\ thrown = 1

\* the rate-limit class each handler is gated and counted under
ConfigOf(kind) ==
    CASE kind = "register" -> "auth"
      [] kind = "login" -> "login"
      [] OTHER -> "passwordReset"

\* C24 - bookkeeping on the error path: in every handler, the step by which
\* an admitted request is answered 500 applies updateRateLimit(success =
\* false) to the client's entry, so its count and failedAttempts go up by one.
C24_ErrorPathCounts ==
    [][\A s \in DOMAIN req :
         (/\ req[s].pc \notin {"idle", "done"}
          /\ req'[s].pc = "done"
          /\ req'[s].resp.status = 500)
         => /\ rateLimitStore' = UpdateStore(rateLimitStore, Key,
                                   rateLimitConfigs[ConfigOf(req[s].kind)], FALSE, now)
            /\ Entry'.count = Entry.count + 1
            /\ Entry'.failedAttempts = Entry.failedAttempts + 1]_vars

\* C25 - the sweep is unobservable: after any sequence of direct library
\* calls at non-decreasing times, checkRateLimit under any identity and
\* config, and checkLoginDelay under any identity, return what they would
\* return had cleanupExpiredEntries never run.
C25_SweepUnobservable ==
    \A k \in Keys :
        /\ \A c \in ConfigNames :
              CheckResult(rateLimitStore, k, rateLimitConfigs[c], now)
              = UnsweptCheckResult(hist.unswept.rl, k, rateLimitConfigs[c], now)
        /\ DelayResult(failedLoginStore, k, now)
           = UnsweptDelayResult(hist.unswept.fl, k, now)

\* the sweep has removed an expired rate-limit entry that was counted
\* against, and a failed-login entry a day old
C25_Witness ==
    /\ Entry = NoEntry
    /\ hist.unswept.rl[Key] # NoEntry /\ hist.unswept.rl[Key].count >= 1
    /\ FailedEntry = NoEntry
    /\ hist.unswept.fl[Key] # NoEntry /\ hist.unswept.fl[Key].attempts >= 2

\* the step by which the gates turn request s away with a 429
Rejected(s) ==
    /\ req[s].pc \in {"idle", "done"}
    /\ now' = now
    /\ req'[s].pc = "done"
    /\ req'[s].resp # NoEntry
    /\ req'[s].resp.status = 429

\* C26, as stated - a request rejected with 429 by either gate leaves the
\* identity's rate-limit entry and failed-login entry as they were and
\* writes no user or token row.
C26_RejectionFrame ==
    [][\A s \in DOMAIN req :
         Rejected(s) => /\ Entry' = Entry
                        /\ FailedEntry' = FailedEntry
                        /\ users' = users /\ tokens' = tokens]_vars

\* C26, amended - a rejected request increments nothing and writes no row:
\* a rate-limit rejection leaves the identity's rate-limit entry as it was,
\* and its failed-login entry too unless that was idle for over 24 hours and
\* is swept; a login-delay rejection leaves the failed-login entry as it
\* was, and the rate-limit entry too unless that was absent or expired and
\* the rate-limit gate before it has put a fresh one in its place.
C26_RejectionCountsNothing ==
    [][\A s \in DOMAIN req :
         Rejected(s)
         => /\ users' = users /\ tokens' = tokens /\ mailbox' = mailbox
            /\ req'[s].resp.code = "RATE_LIMIT_EXCEEDED"
               => /\ Entry # NoEntry /\ Entry' = Entry
                  /\ \/ FailedEntry' = FailedEntry
                     \/ /\ FailedEntry # NoEntry /\ FailedEntry' = NoEntry
                        /\ now - FailedEntry.lastAttempt > 24 * 60 * 60 * 1000
            /\ req'[s].resp.code = "LOGIN_DELAY"
               => /\ FailedEntry # NoEntry /\ FailedEntry' = FailedEntry
                  /\ \/ Entry' = Entry
                     \/ /\ Entry = NoEntry \/ now > Entry.resetAt
                        /\ Entry' = [count |-> 0, failedAttempts |-> 0,
                                     lastFailedAt |-> NoTime,
                                     resetAt |-> now + rateLimitConfigs["login"].windowMs]
            /\ req'[s].resp.code \in {"RATE_LIMIT_EXCEEDED", "LOGIN_DELAY"}]_vars

\* a login has been turned away by the login delay after its rate-limit
\* gate replaced the expired entry the earlier failures were counted in
C26_Witness ==
    \E s \in DOMAIN req :
        /\ req[s].pc = "done" /\ req[s].resp # NoEntry
        /\ req[s].resp.code = "LOGIN_DELAY"
        /\ FailedEntry # NoEntry /\ FailedEntry.attempts = 2
        /\ FailedEntry.lastAttempt < now
        /\ Entry # NoEntry /\ Entry.count = 0
        /\ Entry.resetAt = now + rateLimitConfigs["login"].windowMs

\* C27 - retryAfter is sufficient: whenever the rate-limit gate would answer
\* the client 429 now, with retryAfter = r seconds, the gate asked again
\* 1000 * r ms later, the store being as the rejection left it, lets the
\* request through.
C27_RetryAfterSuffices ==
    \A c \in ConfigNames :
        LET cfg == rateLimitConfigs[c]
            mw == RateLimitMiddleware(rateLimitStore, Key, cfg, now)
        IN mw # NoEntry
           => RateLimitMiddleware(CheckStore(rateLimitStore, Key, cfg, now), Key, cfg,
                                  now + 1000 * mw.retryAfter) = NoEntry

\* C28 - valid forgot-password requests are free: no step of a
\* forgot-password request whose body carries a valid e-mail address,
\* registered or not, changes the identity's rate-limit entry; its gate adds
\* nothing to the count and answers 429 only when the count found in the
\* live entry is already 3 or more.
C28_ValidForgotIsFree ==
    [][\A s \in DOMAIN req :
         /\ (req[s].kind = "forgot" /\ req'[s] # req[s]
               /\ \/ req[s].pc \in {"findUser", "create", "mail"}
                  \/ req[s].pc = "json" /\ req'[s].pc = "findUser")
            => /\ Entry # NoEntry
               /\ Entry' = Entry
         /\ (req[s].pc \in {"idle", "done"} /\ now' = now
               /\ req'[s].kind = "forgot" /\ req'[s].pc \in {"json", "done"}
               /\ rateLimitStore' = CheckStore(rateLimitStore, Key,
                                       rateLimitConfigs["passwordReset"], now))
            => /\ Entry' # NoEntry
               /\ Entry' = Entry \/ Entry'.count = 0
               /\ req'[s].pc = "done"
                  => /\ Live(rateLimitStore, Key, now)
                     /\ Entry.count >= rateLimitConfigs["passwordReset"].maxAttempts]_vars

\* two links have been sent to the registered address, the last request
\* was answered 200, and nothing has been counted
C28_Witness ==
    \E s \in DOMAIN req :
        /\ req[s].kind = "forgot" /\ req[s].pc = "done"
        /\ req[s].resp = UnknownEmailResponse
        /\ Cardinality(mailbox) = 2
        /\ Entry # NoEntry /\ Entry.count = 0 /\ Entry.failedAttempts = 0

\* C29 - identity isolation: a library call made under one identity, with
\* the sweep it triggers, changes nothing of what checkRateLimit, under any
\* config, and checkLoginDelay return for any other identity.
C29_Isolation ==
    [][(client' = client /\ now' = now)
       => \A b \in Keys \ {Key} :
            /\ \A c \in ConfigNames :
                  CheckResult(rateLimitStore', b, rateLimitConfigs[c], now)
                  = CheckResult(rateLimitStore, b, rateLimitConfigs[c], now)
            /\ DelayResult(failedLoginStore', b, now)
               = DelayResult(failedLoginStore, b, now)]_vars

\* the client has counted and recorded failures of its own, and its calls
\* have swept the other identity's expired rate-limit entry while that
\* identity's failed-login entry is still there
C29_Witness ==
    \E b \in Keys \ {Key} :
        /\ rateLimitStore[b] = NoEntry
        /\ hist.unswept.rl[b] # NoEntry /\ hist.unswept.rl[b].count = 1
        /\ now > hist.unswept.rl[b].resetAt
        /\ failedLoginStore[b] # NoEntry /\ failedLoginStore[b].attempts = 2
        /\ Entry # NoEntry /\ Entry.resetAt > now /\ Entry.count >= 1
        /\ FailedEntry # NoEntry

\* C30 - failed-login entry invariant: every entry of the failed-login store
\* has attempts >= 1 and nextAllowedAt = lastAttempt +
\* calculateProgressiveDelay(attempts), which lies after lastAttempt and at
\* most 30000 ms after it.
C30_FailedLoginEntry ==
    \A k \in Keys :
        failedLoginStore[k] # NoEntry
        => LET e == failedLoginStore[k] IN
           /\ e.attempts >= 1
           /\ e.nextAllowedAt = e.lastAttempt + calculateProgressiveDelay(e.attempts)
           /\ e.lastAttempt < e.nextAllowedAt
           /\ e.nextAllowedAt <= e.lastAttempt + 30000
           /\ e.lastAttempt <= now

\* a streak continued after time has passed, and long enough for the cap
C30_Witness ==
    /\ FailedEntry # NoEntry
    /\ FailedEntry.attempts = MaxAttempts
    /\ FailedEntry.lastAttempt = now /\ now > 0
    /\ FailedEntry.nextAllowedAt = now + 30000

====
